---- MODULE Spec2Model ----
(***************************************************************************)
(* Model of finalcodes_client/Adder_alice.c: the client ("Alice") of a     *)
(* bit-wise homomorphic adder.  main() builds the TFHE parameters, seeds   *)
(* the library's random generator, generates a secret keyset, encrypts two *)
(* 32-bit operands and a zero carry bit by bit, loads secret.key, exports  *)
(* the 96 ciphertexts to cloud.data and releases what it allocated.        *)
(*                                                                         *)
(* The program is one thread; every statement of main() is one action and  *)
(* every loop iteration is one step.  The TFHE library and the C library   *)
(* are modelled by their effect on the state main() can observe: the heap, *)
(* the generator, the two FILE handles and the three files.  A call whose  *)
(* behaviour is undefined (a NULL FILE* handed to the library) is a choice *)
(* between the process dying and the call returning without effect.        *)
(***************************************************************************)
EXTENDS Integers, Sequences, FiniteSets, TLC

\* ------------------------------------------------------------- constants
minimum_lambda == 110
seed == <<314, 1592, 657>>
NBITS == 32
NGROUPS == 3

\* Number of distinct well-formed keysets secret.key may hold.  Keyset 1 is
\* the one the seeded generator yields; the others are different keys.
NumStoredKeys == 2

\* Operand values main() is run with: the value compiled into the source,
\* a negative value with alternating bits and INT32_MIN.
INT32_MIN == -2147483647 - 1
Operands == {1073741823, -1431655766, INT32_MIN}

Slots == 0 .. (NBITS - 1)
Groups == 1 .. NGROUPS
Resources == {"params", "key", "bk", "ciphertext1", "ciphertext2", "ciphertext3"}

\* Pointers are modelled by what they point to; 0 stands for "no parameter
\* set", NoKey for "no keyset", NoArray for "no array".
NoParams == 0
NoKey == [id |-> -1, params |-> NoParams]
GarbageKey == [id |-> -2, params |-> NoParams]
NoArray == [s \in {} |-> 0]
SeededKeyId == 1
UnseededKeyId == 0
StoredKeyIds == 1 .. NumStoredKeys
StoredKeyFiles ==
  {[wellformed |-> TRUE, id |-> k, params |-> minimum_lambda] : k \in StoredKeyIds}
    \cup {[wellformed |-> FALSE, id |-> 0, params |-> NoParams]}
STALE ==
  [type |-> "stale", bit |-> -1, key |-> -1, rnd |-> -1, enc |-> 0,
   params |-> NoParams, encParams |-> NoParams, ser |-> NoParams]

VARIABLES
  pc,            \* the statement main() executes next
  i,             \* the loop counter of the for loop being executed
  params,        \* TFheGateBootstrappingParameterSet* params
  key,           \* TFheGateBootstrappingSecretKeySet* key
  bk,            \* TFheGateBootstrappingSecretKeySet* bk
  plaintext1, plaintext2, plaintext3,
  ciphertext1, ciphertext2, ciphertext3,   \* LweSample arrays, indexed 0..31
  secret_key,    \* FILE* secret_key
  cloud_data,    \* FILE* cloud_data
  rng,           \* the library's process-wide random generator
  fs,            \* the files secret.key, cloud.key, cloud.data
  heap,          \* allocation state of every object main() acquires
  hist           \* what has happened so far (events the claims speak of)

vars == <<pc, i, params, key, bk, plaintext1, plaintext2, plaintext3,
          ciphertext1, ciphertext2, ciphertext3, secret_key, cloud_data,
          rng, fs, heap, hist>>

\* ------------------------------------------------------- pure operators
\* v >> n on an int32_t: arithmetic shift, one position at a time.
RECURSIVE ShiftRight(_, _)
ShiftRight(v, n) == IF n = 0 THEN v ELSE ShiftRight(v \div 2, n - 1)

\* The bits taken most significant first: bit n is (plaintext >> (31 - n)) & 1.
BitOf_MSBFirst(v, n) == ShiftRight(v, NBITS - 1 - n) % 2

\* (plaintext >> i) & 1
BitOf(v, n) == ShiftRight(v, n) % 2

\* new_default_gate_bootstrapping_parameters(minimum_lambda): the parameter
\* set is identified by the security level it was built for.
new_default_gate_bootstrapping_parameters(lambda) == lambda

\* tfhe_random_generator_setSeed(seed, 3): the generator restarts from seed.
tfhe_random_generator_setSeed(sd) == [seeded |-> TRUE, seed |-> sd, ctr |-> 0]

\* The keyset the generator yields: the reproducible one when the generator
\* is freshly seeded, an unpredictable one otherwise.
new_random_gate_bootstrapping_secret_keyset(p, g) ==
  [id |-> IF g.seeded /\ g.seed = seed /\ g.ctr = 0 THEN SeededKeyId ELSE UnseededKeyId,
   params |-> p]

\* new_gate_bootstrapping_ciphertext_array(32, params): 32 samples that hold
\* no encryption yet.
NewSample(p) ==
  [type |-> "LweSample", params |-> p, enc |-> 0, bit |-> -1, key |-> -1,
   encParams |-> NoParams, rnd |-> -1]
new_gate_bootstrapping_ciphertext_array(n, p) == [s \in 0 .. (n - 1) |-> NewSample(p)]

\* bootsSymEncrypt(&sample, mu, k): the sample becomes an encryption of mu
\* under k, randomised by the generator's next output r.
bootsSymEncrypt(sample, mu, k, r) ==
  [sample EXCEPT !.enc = @ + 1, !.bit = mu, !.key = k.id,
                 !.encParams = k.params, !.rnd = r]

\* export_gate_bootstrapping_ciphertext_toFile(F, &sample, params): the
\* record appended to the stream, laid out as params says.
ExportedRecord(sample, p) ==
  [type |-> "LweSample", bit |-> sample.bit, key |-> sample.key,
   rnd |-> sample.rnd, enc |-> sample.enc, params |-> sample.params,
   encParams |-> sample.encParams, ser |-> p]

\* The file opened with "ab" instead of "wb": what it held stays in front.
OpenForWriting_Append(old) == old

\* fopen(path, "wb") on success: the file is created empty or truncated.
OpenForWriting(old) == <<>>

\* ------------------------------------------------------------------ Init
Init ==
  /\ pc = "new_params"
  /\ i = 0
  /\ params = NoParams /\ key = NoKey /\ bk = NoKey
  /\ plaintext1 \in Operands
  /\ plaintext2 \in Operands
  /\ plaintext3 = 0
  /\ ciphertext1 = NoArray /\ ciphertext2 = NoArray /\ ciphertext3 = NoArray
  /\ secret_key = "unset" /\ cloud_data = "unset"
  /\ rng = [seeded |-> FALSE, seed |-> <<>>, ctr |-> 0]
  /\ \E k \in StoredKeyFiles, old \in {<<>>, <<STALE>>} :
        fs = [secret |-> k, cloudkey |-> <<>>, clouddata |-> old]
  /\ heap = [r \in Resources |-> "none"]
  /\ hist = [seedings |-> 0, consumers |-> 0,
             frees |-> [r \in Resources |-> 0],
             exports |-> [g \in Groups |-> [s \in Slots |-> 0]],
             failures |-> {}, uaf |-> FALSE]

\* ------------------------------------------------------- shared helpers
Locals == <<plaintext1, plaintext2, plaintext3>>
Arrays == <<ciphertext1, ciphertext2, ciphertext3>>
Files == <<secret_key, cloud_data, fs>>

\* A use of an object that is not live.
Dangling(rs) == \E r \in rs : heap[r] # "live"
Used(rs) == [hist EXCEPT !.uaf = @ \/ Dangling(rs)]
Failed(what) == [hist EXCEPT !.failures = @ \cup {what}]

\* The loop "for (int i=0; i<32; i++)" after its body ran for index i.
NextIndex == IF i + 1 < NBITS THEN i + 1 ELSE 0
LoopPc(again, after) == IF i + 1 < NBITS THEN again ELSE after

\* ----------------------------------------------------- actions of main()
\* line 9
BuildParams ==
  /\ pc = "new_params"
  /\ params' = new_default_gate_bootstrapping_parameters(minimum_lambda)
  /\ heap' = [heap EXCEPT !["params"] = "live"]
  /\ pc' = "setSeed"
  /\ UNCHANGED <<i, key, bk, Locals, Arrays, Files, rng, hist>>

\* The seeding call left out: the generator runs from whatever state it has.
SetSeed_Omitted ==
  /\ pc = "setSeed"
  /\ pc' = "new_keyset"
  /\ UNCHANGED <<i, params, key, bk, Locals, Arrays, Files, rng, heap, hist>>

\* line 13
SetSeed ==
  /\ pc = "setSeed"
  /\ rng' = tfhe_random_generator_setSeed(seed)
  /\ hist' = [hist EXCEPT !.seedings = @ + 1]
  /\ pc' = "new_keyset"
  /\ UNCHANGED <<i, params, key, bk, Locals, Arrays, Files, heap>>

\* line 14
GenerateKey ==
  /\ pc = "new_keyset"
  /\ key' = new_random_gate_bootstrapping_secret_keyset(params, rng)
  /\ rng' = [rng EXCEPT !.ctr = @ + 1]
  /\ heap' = [heap EXCEPT !["key"] = "live"]
  /\ hist' = [Used({"params"}) EXCEPT !.consumers = @ + 1]
  /\ pc' = "alloc1"
  /\ UNCHANGED <<i, params, bk, Locals, Arrays, Files>>

\* lines 17-18, and the loop initialisation of line 19
AllocCiphertext1 ==
  /\ pc = "alloc1"
  /\ ciphertext1' = new_gate_bootstrapping_ciphertext_array(NBITS, params)
  /\ heap' = [heap EXCEPT !["ciphertext1"] = "live"]
  /\ hist' = Used({"params"})
  /\ i' = 0
  /\ pc' = "encrypt1"
  /\ UNCHANGED <<params, key, bk, Locals, ciphertext2, ciphertext3, Files, rng>>

\* lines 19-21, one iteration
Encrypt1 ==
  /\ pc = "encrypt1"
  /\ ciphertext1' = [ciphertext1 EXCEPT
                       ![i] = bootsSymEncrypt(@, BitOf(plaintext1, i), key, rng.ctr)]
  /\ rng' = [rng EXCEPT !.ctr = @ + 1]
  /\ hist' = [Used({"key", "ciphertext1"}) EXCEPT !.consumers = @ + 1]
  /\ i' = NextIndex
  /\ pc' = LoopPc("encrypt1", "alloc2")
  /\ UNCHANGED <<params, key, bk, Locals, ciphertext2, ciphertext3, Files, heap>>

\* lines 24-25, and the loop initialisation of line 26
AllocCiphertext2 ==
  /\ pc = "alloc2"
  /\ ciphertext2' = new_gate_bootstrapping_ciphertext_array(NBITS, params)
  /\ heap' = [heap EXCEPT !["ciphertext2"] = "live"]
  /\ hist' = Used({"params"})
  /\ i' = 0
  /\ pc' = "encrypt2"
  /\ UNCHANGED <<params, key, bk, Locals, ciphertext1, ciphertext3, Files, rng>>

\* The second loop copied from the first with the array name left unchanged.
Encrypt2_IntoCiphertext1 ==
  /\ pc = "encrypt2"
  /\ ciphertext1' = [ciphertext1 EXCEPT
                       ![i] = bootsSymEncrypt(@, BitOf(plaintext2, i), key, rng.ctr)]
  /\ rng' = [rng EXCEPT !.ctr = @ + 1]
  /\ hist' = [Used({"key", "ciphertext1"}) EXCEPT !.consumers = @ + 1]
  /\ i' = NextIndex
  /\ pc' = LoopPc("encrypt2", "alloc3")
  /\ UNCHANGED <<params, key, bk, Locals, ciphertext2, ciphertext3, Files, heap>>

\* lines 26-28, one iteration
Encrypt2 ==
  /\ pc = "encrypt2"
  /\ ciphertext2' = [ciphertext2 EXCEPT
                       ![i] = bootsSymEncrypt(@, BitOf(plaintext2, i), key, rng.ctr)]
  /\ rng' = [rng EXCEPT !.ctr = @ + 1]
  /\ hist' = [Used({"key", "ciphertext2"}) EXCEPT !.consumers = @ + 1]
  /\ i' = NextIndex
  /\ pc' = LoopPc("encrypt2", "alloc3")
  /\ UNCHANGED <<params, key, bk, Locals, ciphertext1, ciphertext3, Files, heap>>

\* lines 31-32, and the loop initialisation of line 33
AllocCiphertext3 ==
  /\ pc = "alloc3"
  /\ ciphertext3' = new_gate_bootstrapping_ciphertext_array(NBITS, params)
  /\ heap' = [heap EXCEPT !["ciphertext3"] = "live"]
  /\ hist' = Used({"params"})
  /\ i' = 0
  /\ pc' = "encrypt3"
  /\ UNCHANGED <<params, key, bk, Locals, ciphertext1, ciphertext2, Files, rng>>

\* lines 33-35, one iteration
Encrypt3 ==
  /\ pc = "encrypt3"
  /\ ciphertext3' = [ciphertext3 EXCEPT
                       ![i] = bootsSymEncrypt(@, BitOf(plaintext3, i), key, rng.ctr)]
  /\ rng' = [rng EXCEPT !.ctr = @ + 1]
  /\ hist' = [Used({"key", "ciphertext3"}) EXCEPT !.consumers = @ + 1]
  /\ i' = NextIndex
  /\ pc' = LoopPc("encrypt3", "printf")
  /\ UNCHANGED <<params, key, bk, Locals, ciphertext1, ciphertext2, Files, heap>>

\* line 37: the greeting goes to stdout, none of the three files
PrintGreeting ==
  /\ pc = "printf"
  /\ pc' = "fopen_secret"
  /\ UNCHANGED <<i, params, key, bk, Locals, Arrays, Files, rng, heap, hist>>

\* line 40: fopen("secret.key","rb") yields a stream or NULL
OpenSecretKey ==
  /\ pc = "fopen_secret"
  /\ \/ /\ secret_key' = "open"
        /\ hist' = hist
     \/ /\ secret_key' = "NULL"
        /\ hist' = Failed("fopen secret.key")
  /\ pc' = "load_secret"
  /\ UNCHANGED <<i, params, key, bk, Locals, Arrays, cloud_data, fs, rng, heap>>

\* line 41: new_tfheGateBootstrappingSecretKeySet_fromFile(secret_key).  The
\* library calls abort() on a malformed file; a NULL stream is undefined.
LoadSecretKey ==
  /\ pc = "load_secret"
  /\ \/ /\ secret_key = "open" /\ fs.secret.wellformed
        /\ bk' = [id |-> fs.secret.id, params |-> fs.secret.params]
        /\ heap' = [heap EXCEPT !["bk"] = "live"]
        /\ hist' = hist
        /\ pc' = "fclose_secret"
     \/ /\ secret_key = "open" /\ ~fs.secret.wellformed
        /\ hist' = Failed("corrupt secret.key")
        /\ pc' = "aborted"
        /\ UNCHANGED <<bk, heap>>
     \/ /\ secret_key = "NULL"
        /\ \/ pc' = "crashed" /\ bk' = bk
           \/ pc' = "fclose_secret" /\ bk' = GarbageKey
        /\ UNCHANGED <<heap, hist>>
  /\ UNCHANGED <<i, params, key, Locals, Arrays, Files, rng>>

\* line 42: fclose(secret_key); fclose(NULL) is undefined
CloseSecretKey ==
  /\ pc = "fclose_secret"
  /\ \/ /\ secret_key = "open"
        /\ secret_key' = "closed"
        /\ pc' = "fopen_cloud"
     \/ /\ secret_key = "NULL"
        /\ secret_key' = secret_key
        /\ pc' \in {"crashed", "fopen_cloud"}
  /\ UNCHANGED <<i, params, key, bk, Locals, Arrays, cloud_data, fs, rng, heap, hist>>

\* Lines 44-47 not commented out: the cloud key of the generated keyset is
\* exported to cloud.key before cloud.data is opened.
OpenCloudData_AfterCloudKeyExport ==
  /\ pc = "fopen_cloud"
  /\ \/ /\ cloud_data' = "open"
        /\ fs' = [fs EXCEPT !.clouddata = <<>>,
                            !.cloudkey = <<[type |-> "CloudKeySet", id |-> key.id]>>]
        /\ hist' = hist
     \/ /\ cloud_data' = "NULL"
        /\ fs' = [fs EXCEPT !.cloudkey = <<[type |-> "CloudKeySet", id |-> key.id]>>]
        /\ hist' = Failed("fopen cloud.data")
  /\ i' = 0
  /\ pc' = "export1"
  /\ UNCHANGED <<params, key, bk, Locals, Arrays, secret_key, rng, heap>>

\* line 50: fopen("cloud.data","wb"), and the loop initialisation of line 51
OpenCloudData ==
  /\ pc = "fopen_cloud"
  /\ \/ /\ cloud_data' = "open"
        /\ fs' = [fs EXCEPT !.clouddata = OpenForWriting(@)]
        /\ hist' = hist
     \/ /\ cloud_data' = "NULL"
        /\ fs' = fs
        /\ hist' = Failed("fopen cloud.data")
  /\ i' = 0
  /\ pc' = "export1"
  /\ UNCHANGED <<params, key, bk, Locals, Arrays, secret_key, rng, heap>>

\* One call export_gate_bootstrapping_ciphertext_toFile(cloud_data, &a[i], params)
\* for slot i of group g.  The library does not look at the result of fwrite:
\* a record that cannot be written is dropped, the stream keeps its error
\* and the call returns.  A NULL stream is undefined.
ExportCall(g, a, again, after) ==
  /\ \/ /\ cloud_data = "open"
        /\ \/ /\ fs' = [fs EXCEPT !.clouddata = Append(@, ExportedRecord(a[i], params))]
              /\ cloud_data' = cloud_data
              /\ hist' = [Used({"params", "ciphertext" \o ToString(g)})
                            EXCEPT !.exports[g][i] = @ + 1]
           \/ /\ fs' = fs
              /\ cloud_data' = "error"
              /\ hist' = [Used({"params", "ciphertext" \o ToString(g)})
                            EXCEPT !.exports[g][i] = @ + 1,
                                   !.failures = @ \cup {"write cloud.data"}]
        /\ i' = NextIndex
        /\ pc' = LoopPc(again, after)
     \/ /\ cloud_data = "error"
        /\ UNCHANGED <<fs, cloud_data>>
        /\ hist' = [Used({"params", "ciphertext" \o ToString(g)})
                      EXCEPT !.exports[g][i] = @ + 1]
        /\ i' = NextIndex
        /\ pc' = LoopPc(again, after)
     \/ /\ cloud_data = "NULL"
        /\ UNCHANGED <<fs, cloud_data>>
        /\ \/ pc' = "crashed" /\ i' = i /\ hist' = hist
           \/ /\ pc' = LoopPc(again, after)
              /\ i' = NextIndex
              /\ hist' = [Used({"params", "ciphertext" \o ToString(g)})
                            EXCEPT !.exports[g][i] = @ + 1]
  /\ UNCHANGED <<params, key, bk, Locals, Arrays, secret_key, rng, heap>>

\* lines 51-52, one iteration
Export1 == pc = "export1" /\ ExportCall(1, ciphertext1, "export1", "export2")

\* lines 53-54, one iteration
Export2 == pc = "export2" /\ ExportCall(2, ciphertext2, "export2", "export3")

\* lines 55-56, one iteration
Export3 == pc = "export3" /\ ExportCall(3, ciphertext3, "export3", "fclose_cloud")

\* line 57: fclose(cloud_data); fclose(NULL) is undefined
CloseCloudData ==
  /\ pc = "fclose_cloud"
  /\ \/ /\ cloud_data \in {"open", "error"}
        /\ cloud_data' = "closed"
        /\ pc' = "delete2"
     \/ /\ cloud_data = "NULL"
        /\ cloud_data' = cloud_data
        /\ pc' \in {"crashed", "delete2"}
  /\ UNCHANGED <<i, params, key, bk, Locals, Arrays, secret_key, fs, rng, heap, hist>>

\* delete_gate_bootstrapping_ciphertext_array, delete_gate_bootstrapping_secret_keyset,
\* delete_gate_bootstrapping_parameters: the object r is released.
Delete(r, after) ==
  /\ heap' = [heap EXCEPT ![r] = "freed"]
  /\ hist' = [Used({r}) EXCEPT !.frees[r] = @ + 1]
  /\ pc' = after
  /\ UNCHANGED <<i, params, key, bk, Locals, Arrays, Files, rng>>

\* line 60
DeleteCiphertext2 == pc = "delete2" /\ Delete("ciphertext2", "delete1")
\* line 61
DeleteCiphertext1 == pc = "delete1" /\ Delete("ciphertext1", "delete3")
\* line 62
DeleteCiphertext3 == pc = "delete3" /\ Delete("ciphertext3", "delete_key")
\* line 63
DeleteKey == pc = "delete_key" /\ Delete("key", "delete_params")
\* line 64
DeleteParams == pc = "delete_params" /\ Delete("params", "return")

\* line 65: main() returns
Return ==
  /\ pc = "return"
  /\ pc' = "done"
  /\ UNCHANGED <<i, params, key, bk, Locals, Arrays, Files, rng, heap, hist>>

Next ==
  \/ BuildParams \/ SetSeed \/ GenerateKey
  \/ AllocCiphertext1 \/ Encrypt1
  \/ AllocCiphertext2 \/ Encrypt2
  \/ AllocCiphertext3 \/ Encrypt3
  \/ PrintGreeting
  \/ OpenSecretKey \/ LoadSecretKey \/ CloseSecretKey
  \/ OpenCloudData \/ Export1 \/ Export2 \/ Export3 \/ CloseCloudData
  \/ DeleteCiphertext2 \/ DeleteCiphertext1 \/ DeleteCiphertext3
  \/ DeleteKey \/ DeleteParams \/ Return

Spec == Init /\ [][Next]_vars

\* ------------------------------------------------------- derived notions
Ended == pc \in {"done", "aborted", "crashed"}
Array(g) == IF g = 1 THEN ciphertext1 ELSE IF g = 2 THEN ciphertext2 ELSE ciphertext3
Value(g) == IF g = 1 THEN plaintext1 ELSE IF g = 2 THEN plaintext2 ELSE plaintext3

\* main() returned and no library or file operation on the way failed.
Completed == pc = "done" /\ hist.failures = {}
AnyBitEncrypted == \E g \in Groups : \E s \in DOMAIN Array(g) : Array(g)[s].enc > 0
AllEncryptedOnce ==
  \A g \in Groups : DOMAIN Array(g) = Slots /\ \A s \in Slots : Array(g)[s].enc = 1
SessionRecords == {k \in 1 .. Len(fs.clouddata) : fs.clouddata[k].type = "LweSample"}

\* ------------------------------------------- the receiving side (spec 4.3-4.5)
\* toBits: bit n of a signed 32-bit value in two's complement, LSB first.
toBits(v) ==
  [n \in Slots |-> IF n = NBITS - 1 THEN (IF v < 0 THEN 1 ELSE 0)
                   ELSE (v \div (2 ^ n)) % 2]

\* fromBits: the signed 32-bit value of 32 bits given LSB first.
RECURSIVE FromBitsDownTo(_, _, _)
FromBitsDownTo(b, n, acc) ==
  IF n < 0 THEN acc ELSE FromBitsDownTo(b, n - 1, 2 * acc + b[n])
fromBits(b) == FromBitsDownTo(b, NBITS - 2, -b[NBITS - 1])

\* decryptBit: the plaintext bit under the encrypting key, the wrong bit
\* under any other key.
decryptBit(c, k) == IF c.key = k.id THEN c.bit ELSE 1 - c.bit

\* readRecord: group g (1-based) of a stream of records, NBITS per group.
readRecord(stream, g) == [n \in Slots |-> stream[NBITS * (g - 1) + n + 1]]

\* ================================================================ claims

\* C1: when the session completes, cloud.data holds exactly 96 records and
\* nothing else, and the record at position 32*g + i (groups A, B, carry
\* counted from 0) is the ciphertext produced by the encryption of bit
\* (value_g >> i) & 1 of that group's integer, negative operands included.
C1_TransportLayout ==
  Completed =>
    /\ Len(fs.clouddata) = NGROUPS * NBITS
    /\ \A g \in Groups : \A s \in Slots :
         LET r == fs.clouddata[NBITS * (g - 1) + s + 1] IN
           /\ r = ExportedRecord(Array(g)[s], params)
           /\ r.enc = 1
           /\ r.bit = toBits(Value(g))[s]
           /\ r.rnd = 1 + NBITS * (g - 1) + s
    /\ plaintext3 = 0
C1_Witness ==
  /\ Completed
  /\ plaintext1 = INT32_MIN /\ plaintext2 = 1073741823
  /\ Len(fs.clouddata) = NGROUPS * NBITS
  /\ fs.clouddata[NBITS].bit = 1 /\ fs.clouddata[NBITS + 1].bit = 1

\* C2: every ciphertext written to the transport file was encrypted under
\* the SecretKey loaded from secret.key.
C2_EncryptedUnderLoadedKey ==
  secret_key = "closed" =>
    \A k \in SessionRecords : fs.clouddata[k].key = bk.id

\* C3: the session goes Init, ParamsBuilt, KeyReady, InputsEncoded,
\* InputsEncrypted, TransportWritten, Done in that order; in particular every
\* step that obtains a SecretKey (generation and loading from secret.key) is
\* finished before the first bit is encrypted.
C3_KeyReadyBeforeEncryption ==
  AnyBitEncrypted => (key # NoKey /\ bk # NoKey)

\* C4: reading the 96 records back in groups of 32, decrypting each under the
\* key that encrypted it and reassembling the bits LSB-first gives back
\* operand A, operand B and carry 0.
C4_TransportRoundTrip ==
  Completed =>
    /\ Len(fs.clouddata) = NGROUPS * NBITS
    /\ \A g \in Groups :
         fromBits([s \in Slots |-> decryptBit(readRecord(fs.clouddata, g)[s], key)])
           = Value(g)
    /\ Value(3) = 0
C4_Witness ==
  /\ Completed
  /\ plaintext1 = -1431655766 /\ plaintext2 = INT32_MIN
  /\ fromBits([s \in Slots |-> decryptBit(readRecord(fs.clouddata, 1)[s], key)])
       = -1431655766

\* C5: any failure (secret.key unreadable or corrupt, cloud.data cannot be
\* opened, a write fails) aborts the session, and on every exit path each
\* file handle that was opened has been closed.
C5_FailureAbortsAndHandlesClosed ==
  /\ pc = "done" => hist.failures = {}
  /\ Ended => (secret_key # "open" /\ cloud_data \notin {"open", "error"})

\* C6: no partial success: a session that terminates normally leaves either
\* the full 96-record transport in cloud.data or none of its records.
C6_NoPartialTransport ==
  pc = "done" => Cardinality(SessionRecords) \in {0, NGROUPS * NBITS}

\* C7: at the end of the session the parameter set, the generated keyset,
\* the keyset loaded from secret.key and the three ciphertext arrays have
\* each been released exactly once, and none was used after its release.
C7_AllReleasedOnce ==
  pc = "done" =>
    /\ \A r \in Resources :
         heap[r] # "none" => (heap[r] = "freed" /\ hist.frees[r] = 1)
    /\ ~hist.uaf

\* C8: the generator is seeded with {314, 1592, 657} before key generation
\* and before every encryption; exactly one seeding happens in a session and
\* none between key generation and any of the 96 encryptions.
C8_SeededOnceBeforeUse ==
  /\ hist.seedings <= 1
  /\ hist.consumers > 0 =>
       /\ hist.seedings = 1
       /\ rng.seeded /\ rng.seed = <<314, 1592, 657>>
       /\ rng.ctr = hist.consumers
  /\ pc = "done" => (hist.seedings = 1 /\ hist.consumers = 1 + NGROUPS * NBITS)
C8_Witness ==
  /\ pc = "done"
  /\ hist.seedings = 1
  /\ hist.consumers = 1 + NGROUPS * NBITS
  /\ key.id = SeededKeyId

\* C9: the only data the session writes to a file is ciphertext records to
\* cloud.data: secret.key is only read, cloud.key is never created and no
\* key is written to cloud.data.
C9_OnlyCiphertextWritten ==
  [][/\ fs'.secret = fs.secret
     /\ fs'.cloudkey = fs.cloudkey
     /\ \/ fs'.clouddata = fs.clouddata
        \/ \A k \in 1 .. Len(fs'.clouddata) : fs'.clouddata[k].type = "LweSample"]_vars
C9_Witness ==
  /\ pc = "done"
  /\ key # NoKey /\ bk.id \in StoredKeyIds
  /\ Cardinality(SessionRecords) = NGROUPS * NBITS
  /\ fs.cloudkey = <<>>

\* C10: each of the 96 slots is encrypted exactly once, under the parameter
\* set it was allocated with and is serialized with; all 96 encryptions are
\* done before cloud.data is opened; no slot is exported unencrypted and none
\* more than once.
C10_SlotsEncryptedThenExportedOnce ==
  /\ \A g \in Groups : \A s \in DOMAIN Array(g) :
       /\ Array(g)[s].enc <= 1
       /\ Array(g)[s].enc = 1 =>
            (Array(g)[s].encParams = Array(g)[s].params /\ Array(g)[s].params = params)
  /\ cloud_data # "unset" => AllEncryptedOnce
  /\ pc = "done" => AllEncryptedOnce
  /\ \A g \in Groups : \A s \in Slots :
       /\ hist.exports[g][s] <= 1
       /\ hist.exports[g][s] > 0 => (s \in DOMAIN Array(g) /\ Array(g)[s].enc = 1)
  /\ \A k \in SessionRecords :
       /\ fs.clouddata[k].enc = 1
       /\ fs.clouddata[k].ser = fs.clouddata[k].params
       /\ fs.clouddata[k].ser = fs.clouddata[k].encParams
  /\ Completed => \A g \in Groups : \A s \in Slots : hist.exports[g][s] = 1
C10_Witness ==
  /\ Completed
  /\ \A g \in Groups : \A s \in Slots : hist.exports[g][s] = 1
  /\ Cardinality(SessionRecords) = NGROUPS * NBITS

====
